---- MODULE Spec2Model ----
(***************************************************************************)
(* Model of convex/addUser.js: the three request handlers me, list and put *)
(* over the "users" table of the managed database.                         *)
(*                                                                         *)
(* Spec    : every handler invocation runs as one transaction (the         *)
(*           platform's mutation/query semantics).                         *)
(* SpecNA  : MaxProcs put invocations, each split at its awaits (identity, *)
(*           lookup, write), so that their steps interleave.               *)
(* SpecQ   : me and list as transactions between the steps of put.         *)
(* SpecLive: put invocations under fairness of their awaited calls.        *)
(*                                                                         *)
(* Model of static/SpeechSDK-JavaScript-1.25.1/speech-processor.js: the    *)
(* audio worklet processor SpeechProcessor and its message port.           *)
(*                                                                         *)
(* SpecSP  : the audio engine calls process once per render quantum.       *)
(***************************************************************************)
EXTENDS Integers, Sequences, FiniteSets, TLC

\* ---------------------------------------------------------------- bounds
MaxTokens == 2      \* distinct tokenIdentifier values the auth provider issues
MaxNames  == 2      \* distinct display names the auth provider reports
MaxProcs  == 3      \* put invocations that run concurrently (SpecNA)
MaxQueryProcs == 1  \* put invocations that me and list interleave with (SpecQ)
MaxLiveProcs  == 2  \* put invocations whose completion is followed (SpecLive)
MaxChannels     == 2  \* channels of an input or output of the processor
MaxBuffers      == 2  \* distinct sample buffers the audio engine hands over
MaxProcessCalls == 3  \* calls of process the audio engine makes (SpecSP)

Tokens == 1..MaxTokens
Names  == 1..MaxNames
Procs  == 1..MaxProcs
QueryProcs == 1..MaxQueryProcs
LiveProcs  == 1..MaxLiveProcs

\* ---------------------------------------------------------------- values
\* JavaScript null: what auth.getUserIdentity() gives an unauthenticated
\* caller and what unique() gives when no document matches.
Null == [null |-> TRUE]

\* The identity objects auth.getUserIdentity() can resolve to.
Identities == [tokenIdentifier : Tokens, name : Names]
AuthContexts == Identities \cup {Null}

ErrMe     == "Unauthenticated call to mutation"
ErrPut    == "Called storeUser without authentication present"
ErrUnique == "unique() query returned more than one result"

VARIABLES
    users,      \* the "users" table: sequence of documents in creation order
    nextId,     \* the next document id db.insert will hand out
    pc,         \* SpecNA: position of each put invocation
    identity,   \* SpecNA: the local `identity` of each put invocation
    user,       \* SpecNA: the local `user` of each put invocation
    last,       \* the handler invocation that completed last
    firstId,    \* per tokenIdentifier, the id the first successful put returned
    putTokens,  \* tokenIdentifiers with at least one successful put
    putTwice,   \* tokenIdentifiers with at least two successful puts
    port,       \* SpecSP: messages posted on this.port, in posting order
    lastProcess,\* SpecSP: the call of process made last
    nProcess    \* SpecSP: calls of process made so far

vars == <<users, nextId, pc, identity, user, last, firstId, putTokens, putTwice,
          port, lastProcess, nProcess>>

procVars == <<port, lastProcess, nProcess>>

\* ------------------------------------------------------- database client
\* A read of the first document only, as first() or take(1) would give.
M_CollectFirst(rows) == IF Len(rows) = 0 THEN <<>> ELSE <<rows[1]>>

\* db.query("users").collect()
Collect(rows) == rows

\* db.query("users").filter(q => q.eq(q.field('tokenIdentifier'), tok))
Filter(rows, tok) == SelectSeq(rows, LAMBDA r : r.tokenIdentifier = tok)

\* unique() that never finds a document.
M_UniqueNeverFound(matches) == [threw |-> FALSE, doc |-> Null]

\* first() in the place of unique(): the first match, and no throw.
M_UniqueFirst(matches) ==
    IF Len(matches) = 0 THEN [threw |-> FALSE, doc |-> Null]
    ELSE [threw |-> FALSE, doc |-> matches[1]]

\* .unique(): the single match, null when there is none, throws on several.
Unique(matches) ==
    IF Len(matches) = 0 THEN [threw |-> FALSE, doc |-> Null]
    ELSE IF Len(matches) = 1 THEN [threw |-> FALSE, doc |-> matches[1]]
    ELSE [threw |-> TRUE, doc |-> Null]

\* patch that writes the first document of the table, whatever the id.
M_PatchFirst(rows, id, name) ==
    [i \in 1..Len(rows) |->
        IF i = 1 THEN [rows[i] EXCEPT !.name = name] ELSE rows[i]]

\* A delete of the document where the patch should be.
M_PatchDeletes(rows, id, name) == SelectSeq(rows, LAMBDA r : r._id # id)

\* A replace instead of the patch: the document keeps its id and gets the
\* name, and its tokenIdentifier is lost (0: no tokenIdentifier).
M_PatchClearsToken(rows, id, name) ==
    [i \in 1..Len(rows) |->
        IF rows[i]._id = id
        THEN [rows[i] EXCEPT !.name = name, !.tokenIdentifier = 0]
        ELSE rows[i]]

\* db.patch(id, { name: name })
Patch(rows, id, name) ==
    [i \in 1..Len(rows) |->
        IF rows[i]._id = id THEN [rows[i] EXCEPT !.name = name] ELSE rows[i]]

\* An insert that leaves the tokenIdentifier field out (0: none).
M_InsertNoToken(rows, id, name, tok) ==
    Append(rows, [_id |-> id, name |-> name, tokenIdentifier |-> 0])

\* db.insert("users", { name, tokenIdentifier }) with the fresh id `id`
Insert(rows, id, name, tok) ==
    Append(rows, [_id |-> id, name |-> name, tokenIdentifier |-> tok])

\* ---------------------------------------------------------------- handlers
\* The result of a handler: how it ended, with what value, and what it left
\* in the table.
\* A throw: no write.
Thrown(rows, nid, msg) ==
    [outcome |-> "error", value |-> msg, users |-> rows, nextId |-> nid,
     patches |-> 0, inserts |-> 0]

\* A return without a write.
Returned(rows, nid, val) ==
    [outcome |-> "ok", value |-> val, users |-> rows, nextId |-> nid,
     patches |-> 0, inserts |-> 0]

\* me without the check of the identity: null is returned like an identity.
M_MeNoCheck(rows, nid, ident) == Returned(rows, nid, ident)

\* me that also stores the caller, as put does.
M_MeStoresUser(rows, nid, ident) ==
    IF ident = Null
    THEN Thrown(rows, nid, ErrMe)
    ELSE [outcome |-> "ok", value |-> ident,
          users |-> Append(rows, [_id |-> nid, name |-> ident.name,
                                  tokenIdentifier |-> ident.tokenIdentifier]),
          nextId |-> nid + 1, patches |-> 0, inserts |-> 1]

\* me: lines 3-10
MeResult(rows, nid, ident) ==
    IF ident = Null
    THEN Thrown(rows, nid, ErrMe)
    ELSE Returned(rows, nid, ident)

\* list that gives each caller only the documents of its own tokenIdentifier.
M_ListOwnRows(rows, nid, ident) ==
    Returned(rows, nid,
             SelectSeq(rows, LAMBDA r : ident # Null
                                        /\ r.tokenIdentifier = ident.tokenIdentifier))

\* list with the identity check that me and put have.
M_ListRequiresAuth(rows, nid, ident) ==
    IF ident = Null
    THEN Thrown(rows, nid, ErrMe)
    ELSE Returned(rows, nid, rows)

\* list: lines 11-14
ListResult(rows, nid, ident) == Returned(rows, nid, Collect(rows))

\* The lookup matching on the name field instead of tokenIdentifier.
M_PutLookupByName(rows, ident) ==
    Unique(SelectSeq(rows, LAMBDA r : r.name = ident.name))

\* put, lines 24-27: the lookup of the caller's document
PutLookupResult(rows, ident) == Unique(Filter(rows, ident.tokenIdentifier))

\* The write without the patch of a changed name.
M_PutWriteNoPatch(rows, nid, ident, u) ==
    IF u # Null
    THEN Returned(rows, nid, u._id)
    ELSE [outcome |-> "ok", value |-> nid,
          users |-> Insert(rows, nid, ident.name, ident.tokenIdentifier),
          nextId |-> nid + 1, patches |-> 0, inserts |-> 1]

\* The write without `return user._id`: control falls through to the insert.
M_PutWriteFallsThrough(rows, nid, ident, u) ==
    LET patched == IF u # Null /\ u.name # ident.name
                   THEN Patch(rows, u._id, ident.name) ELSE rows
    IN [outcome |-> "ok", value |-> nid,
        users |-> Insert(patched, nid, ident.name, ident.tokenIdentifier),
        nextId |-> nid + 1,
        patches |-> IF u # Null /\ u.name # ident.name THEN 1 ELSE 0,
        inserts |-> 1]

\* The write that looks the table up again and inserts only if the caller
\* still has no document (lookup and write made one step).
M_PutWriteRechecks(rows, nid, ident, u) ==
    LET now == SelectSeq(rows, LAMBDA r : r.tokenIdentifier = ident.tokenIdentifier)
        cur == IF u # Null THEN u ELSE IF Len(now) > 0 THEN now[1] ELSE Null
    IN IF cur # Null
       THEN IF cur.name # ident.name
            THEN [outcome |-> "ok", value |-> cur._id,
                  users |-> Patch(rows, cur._id, ident.name), nextId |-> nid,
                  patches |-> 1, inserts |-> 0]
            ELSE Returned(rows, nid, cur._id)
       ELSE [outcome |-> "ok", value |-> nid,
             users |-> Insert(rows, nid, ident.name, ident.tokenIdentifier),
             nextId |-> nid + 1, patches |-> 0, inserts |-> 1]

\* The write that patches the found document whether or not the name differs.
M_PutWriteAlwaysPatches(rows, nid, ident, u) ==
    IF u # Null
    THEN [outcome |-> "ok", value |-> u._id,
          users |-> Patch(rows, u._id, ident.name), nextId |-> nid,
          patches |-> 1, inserts |-> 0]
    ELSE [outcome |-> "ok", value |-> nid,
          users |-> Insert(rows, nid, ident.name, ident.tokenIdentifier),
          nextId |-> nid + 1, patches |-> 0, inserts |-> 1]

\* put, lines 28-39: what follows a lookup that gave `u`
PutWriteResult(rows, nid, ident, u) ==
    IF u # Null
    THEN IF u.name # ident.name
         THEN [outcome |-> "ok", value |-> u._id,
               users |-> Patch(rows, u._id, ident.name), nextId |-> nid,
               patches |-> 1, inserts |-> 0]
         ELSE Returned(rows, nid, u._id)
    ELSE [outcome |-> "ok", value |-> nid,
          users |-> Insert(rows, nid, ident.name, ident.tokenIdentifier),
          nextId |-> nid + 1,
          patches |-> 0, inserts |-> 1]

\* put that returns null to an unauthenticated caller instead of throwing.
M_PutUnauthReturnsNull(rows, nid, ident) ==
    IF ident = Null THEN Returned(rows, nid, Null)
    ELSE LET found == PutLookupResult(rows, ident) IN
         IF found.threw THEN Thrown(rows, nid, ErrUnique)
         ELSE PutWriteResult(rows, nid, ident, found.doc)

\* put as one transaction: lines 17-40
PutResult(rows, nid, ident) ==
    IF ident = Null THEN Thrown(rows, nid, ErrPut)
    ELSE LET found == PutLookupResult(rows, ident) IN
         IF found.threw THEN Thrown(rows, nid, ErrUnique)
         ELSE PutWriteResult(rows, nid, ident, found.doc)

\* ------------------------------------------------- speech processor values
\* JavaScript undefined: inputs[0] of an empty inputs array, output[0] of an
\* empty output array.
Undefined == [undefined |-> TRUE]

\* The sample buffers (Float32Array) the audio engine passes in as channels,
\* and the zero-filled buffer it passes in as a channel of an output.
Buffers == {[buffer |-> b] : b \in 1..MaxBuffers}
Silence == [buffer |-> 0]

\* The `inputs` argument: no input at all, or one input of 0..MaxChannels
\* channels.  The `outputs` argument: one output of 0..MaxChannels channels.
InputArrays ==
    {<<>>} \cup {<<input>> : input \in UNION {[1..k -> Buffers] : k \in 0..MaxChannels}}
OutputArrays == {<<[c \in 1..k |-> Silence]>> : k \in 0..MaxChannels}

\* lines 11-13: the loop, `channel` counting from 0 as in the source
RECURSIVE CopyChannels(_, _, _)
CopyChannels(input, output, channel) ==
    IF channel < Len(input)
    THEN CopyChannels(input, Append(output, input[channel + 1]), channel + 1)
    ELSE output

M_ProcessPostsLastChannel(inputs, outputs) ==
    IF Len(inputs) = 0
    THEN [threw |-> TRUE, posted |-> <<>>, ret |-> <<>>, outputs |-> outputs]
    ELSE LET input == inputs[1] IN
         [threw |-> FALSE,
          posted |-> <<IF Len(input) = 0 THEN Undefined ELSE input[Len(input)]>>,
          ret |-> <<TRUE>>,
          outputs |-> outputs]

M_ProcessReturnsHasChannels(inputs, outputs) ==
    IF Len(inputs) = 0
    THEN [threw |-> TRUE, posted |-> <<>>, ret |-> <<>>, outputs |-> outputs]
    ELSE LET input == inputs[1] IN
         [threw |-> FALSE,
          posted |-> <<IF Len(input) = 0 THEN Undefined ELSE input[1]>>,
          ret |-> <<Len(input) > 0>>,
          outputs |-> outputs]

M_ProcessSkipsEmpty(inputs, outputs) ==
    IF Len(inputs) = 0
    THEN [threw |-> TRUE, posted |-> <<>>, ret |-> <<>>, outputs |-> outputs]
    ELSE LET input == inputs[1] IN
         [threw |-> FALSE,
          posted |-> IF Len(input) = 0 THEN <<>> ELSE <<input[1]>>,
          ret |-> <<TRUE>>,
          outputs |-> outputs]

M_ProcessWritesOutputs(inputs, outputs) ==
    IF Len(inputs) = 0
    THEN [threw |-> TRUE, posted |-> <<>>, ret |-> <<>>, outputs |-> outputs]
    ELSE LET input == inputs[1] IN
         [threw |-> FALSE,
          posted |-> <<IF Len(input) = 0 THEN Undefined ELSE input[1]>>,
          ret |-> <<TRUE>>,
          outputs |-> <<input>>]

\* process: lines 8-16.  `input.length` throws a TypeError when inputs[0] is
\* undefined, before anything is posted.  `posted` is what the call puts on
\* the port, `ret` holds the return value of a call that completes, and
\* `outputs` is the outputs argument as the call leaves it.
ProcessResult(inputs, outputs) ==
    IF Len(inputs) = 0
    THEN [threw |-> TRUE, posted |-> <<>>, ret |-> <<>>, outputs |-> outputs]
    ELSE LET input  == inputs[1]
             output == CopyChannels(input, <<>>, 0)
         IN  [threw |-> FALSE,
              posted |-> <<IF Len(output) = 0 THEN Undefined ELSE output[1]>>,
              ret |-> <<TRUE>>,
              outputs |-> outputs]

\* No call of process has been made yet.
NoProcess ==
    [made |-> FALSE, inputs |-> <<>>, outputs |-> <<>>, port |-> <<>>,
     threw |-> FALSE, posted |-> <<>>, ret |-> <<>>, left |-> <<>>]

\* ------------------------------------------------------------ bookkeeping
NoCall == [op |-> "none", identity |-> Null, outcome |-> "none", value |-> Null,
           pre |-> <<>>, patches |-> 0, inserts |-> 0, repeat |-> FALSE]

\* Whether an invocation of `op` by `ident` directly follows a successful
\* invocation of the same handler by the same identity.
Repeats(call, op, ident) ==
    call.op = op /\ call.outcome = "ok" /\ call.identity = ident

Call(op, ident, res, pre) ==
    [op |-> op, identity |-> ident, outcome |-> res.outcome, value |-> res.value,
     pre |-> pre, patches |-> res.patches, inserts |-> res.inserts,
     repeat |-> Repeats(last, op, ident)]

\* The record of a completed put and the bookkeeping of its return value.
PutDone(ident, res) ==
    /\ last' = Call("put", ident, res, users)
    /\ IF res.outcome = "ok" /\ ident # Null
       THEN /\ putTokens' = putTokens \cup {ident.tokenIdentifier}
            /\ putTwice' = putTwice \cup ({ident.tokenIdentifier} \cap putTokens)
            /\ firstId' = IF firstId[ident.tokenIdentifier] = 0
                          THEN [firstId EXCEPT ![ident.tokenIdentifier] = res.value]
                          ELSE firstId
       ELSE UNCHANGED <<putTokens, putTwice, firstId>>

Init ==
    /\ users = <<>>
    /\ nextId = 1
    /\ pc = [p \in Procs |-> "idle"]
    /\ identity = [p \in Procs |-> Null]
    /\ user = [p \in Procs |-> Null]
    /\ last = NoCall
    /\ firstId = [t \in Tokens |-> 0]
    /\ putTokens = {}
    /\ putTwice = {}
    /\ port = <<>>
    /\ lastProcess = NoProcess
    /\ nProcess = 0

\* ------------------------------------------------ transactional invocations
me(ident) ==
    /\ LET res == MeResult(users, nextId, ident) IN
        /\ users' = res.users
        /\ nextId' = res.nextId
        /\ last' = Call("me", ident, res, users)
    /\ UNCHANGED <<pc, identity, user, firstId, putTokens, putTwice>>
    /\ UNCHANGED procVars

list(ident) ==
    /\ LET res == ListResult(users, nextId, ident) IN
        /\ users' = res.users
        /\ nextId' = res.nextId
        /\ last' = Call("list", ident, res, users)
    /\ UNCHANGED <<pc, identity, user, firstId, putTokens, putTwice>>
    /\ UNCHANGED procVars

put(ident) ==
    /\ LET res == PutResult(users, nextId, ident) IN
        /\ users' = res.users
        /\ nextId' = res.nextId
        /\ PutDone(ident, res)
    /\ UNCHANGED <<pc, identity, user>>
    /\ UNCHANGED procVars

Next ==
    \/ \E ident \in AuthContexts : me(ident)
    \/ \E ident \in AuthContexts : list(ident)
    \/ \E ident \in AuthContexts : put(ident)

Spec == Init /\ [][Next]_vars

\* --------------------------------------------- put split at its awaits
\* Each p in Procs is one put invocation: idle -> lookup -> write -> done;
\* its locals are gone once it is done.

\* lines 18-21: await auth.getUserIdentity() and the check of its result
PutAuth(p, ident) ==
    /\ pc[p] = "idle"
    /\ IF ident = Null
       THEN /\ PutDone(ident, Thrown(users, nextId, ErrPut))
            /\ pc' = [pc EXCEPT ![p] = "done"]
            /\ UNCHANGED <<users, nextId, identity, user>>
       ELSE /\ pc' = [pc EXCEPT ![p] = "lookup"]
            /\ identity' = [identity EXCEPT ![p] = ident]
            /\ UNCHANGED <<users, nextId, user, last, firstId, putTokens, putTwice>>
    /\ UNCHANGED procVars

M_PutLookupWaits(p) ==
    /\ pc[p] = "lookup"
    /\ \A q \in Procs \ {p} : pc[q] # "lookup"
    /\ LET found == Unique(Filter(users, identity[p].tokenIdentifier)) IN
        IF found.threw
        THEN /\ PutDone(identity[p], Thrown(users, nextId, ErrUnique))
             /\ pc' = [pc EXCEPT ![p] = "done"]
             /\ identity' = [identity EXCEPT ![p] = Null]
             /\ UNCHANGED <<users, nextId, user>>
        ELSE /\ user' = [user EXCEPT ![p] = found.doc]
             /\ pc' = [pc EXCEPT ![p] = "write"]
             /\ UNCHANGED <<users, nextId, identity, last, firstId, putTokens, putTwice>>
    /\ UNCHANGED procVars

\* lines 24-27: await db.query("users").filter(...).unique()
PutLookup(p) ==
    /\ pc[p] = "lookup"
    /\ LET found == PutLookupResult(users, identity[p]) IN
        IF found.threw
        THEN /\ PutDone(identity[p], Thrown(users, nextId, ErrUnique))
             /\ pc' = [pc EXCEPT ![p] = "done"]
             /\ identity' = [identity EXCEPT ![p] = Null]
             /\ UNCHANGED <<users, nextId, user>>
        ELSE /\ user' = [user EXCEPT ![p] = found.doc]
             /\ pc' = [pc EXCEPT ![p] = "write"]
             /\ UNCHANGED <<users, nextId, identity, last, firstId, putTokens, putTwice>>
    /\ UNCHANGED procVars

\* lines 28-39: the patch or the insert, and the return
PutWrite(p) ==
    /\ pc[p] = "write"
    /\ LET res == PutWriteResult(users, nextId, identity[p], user[p]) IN
        /\ users' = res.users
        /\ nextId' = res.nextId
        /\ PutDone(identity[p], res)
    /\ pc' = [pc EXCEPT ![p] = "done"]
    /\ identity' = [identity EXCEPT ![p] = Null]
    /\ user' = [user EXCEPT ![p] = Null]
    /\ UNCHANGED procVars

NextNA ==
    \/ \E p \in Procs, ident \in AuthContexts : PutAuth(p, ident)
    \/ \E p \in Procs : PutLookup(p)
    \/ \E p \in Procs : PutWrite(p)

SpecNA == Init /\ [][NextNA]_vars

\* ====================================================================
\* Properties
\* ====================================================================
\* The positions in `rows` of the documents of tokenIdentifier `tok`.
RowsOf(rows, tok) == {i \in 1..Len(rows) : rows[i].tokenIdentifier = tok}

AtMostOnePerToken(rows) == \A t \in Tokens : Cardinality(RowsOf(rows, t)) <= 1

LastPutOk == last.op = "put" /\ last.outcome = "ok"

\* C1: with every invocation a transaction and the table empty at the
\* start, the table never holds two documents of one tokenIdentifier.
C1_OneRowPerToken == AtMostOnePerToken(users)

\* A put found its caller's document in a table that holds another caller's
\* document too.
C1_Witness ==
    /\ LastPutOk
    /\ last.inserts = 0
    /\ Len(users) >= 2
    /\ putTwice # {}

\* C2: with lookup and write as separate steps, the write of an invocation
\* whose lookup found no document inserts one for its tokenIdentifier,
\* whatever other invocations have inserted since the lookup; two first
\* calls of one identity so leave two documents of its tokenIdentifier.
C2_StaleWriteInserts ==
    [][\A p \in Procs :
        (pc[p] = "write" /\ user[p] = Null /\ pc'[p] = "done") =>
            Cardinality(RowsOf(users', identity[p].tokenIdentifier))
                = Cardinality(RowsOf(users, identity[p].tokenIdentifier)) + 1]_vars

\* Two puts of one tokenIdentifier have returned and the table holds two
\* documents of it.
C2_Witness ==
    \E t \in putTwice : Cardinality(RowsOf(users, t)) = 2

\* C3: after a successful put, run as a transaction on a table with at most
\* one document per tokenIdentifier, exactly one document has the caller's
\* tokenIdentifier, and its name is the name of the caller's identity.
C3_PutEnsuresRow ==
    (LastPutOk /\ AtMostOnePerToken(last.pre)) =>
        /\ Cardinality(RowsOf(users, last.identity.tokenIdentifier)) = 1
        /\ \A i \in RowsOf(users, last.identity.tokenIdentifier) :
                users[i].name = last.identity.name

\* A put has renamed its caller's document.
C3_Witness == LastPutOk /\ last.patches = 1

\* C4: a put without an identity ends in an error and writes nothing.
C4_PutUnauthenticated ==
    (last.op = "put" /\ last.identity = Null) =>
        /\ last.outcome = "error"
        /\ users = last.pre
        /\ last.patches = 0 /\ last.inserts = 0

C4_Witness == last.op = "put" /\ last.identity = Null /\ Len(users) >= 1

\* C5: a put that directly follows a successful put of the same identity
\* (same tokenIdentifier, same name) leaves the table as the first left it,
\* with exactly one document of that tokenIdentifier.
C5_PutIdempotent ==
    (last.op = "put" /\ last.repeat) =>
        /\ last.outcome = "ok"
        /\ users = last.pre
        /\ Cardinality(RowsOf(users, last.identity.tokenIdentifier)) = 1

C5_Witness == last.op = "put" /\ last.repeat /\ Len(users) >= 2

\* C6: a put whose caller has a document with another name sets that
\* document's name to the caller's and leaves the number of documents as it
\* was.
C6_PutRenames ==
    LastPutOk =>
        \A i \in RowsOf(last.pre, last.identity.tokenIdentifier) :
            last.pre[i].name # last.identity.name =>
                /\ Len(users) = Len(last.pre)
                /\ users[i]._id = last.pre[i]._id
                /\ users[i].tokenIdentifier = last.pre[i].tokenIdentifier
                /\ users[i].name = last.identity.name

\* The renamed document is not the first of the table.
C6_Witness ==
    /\ LastPutOk
    /\ \E i \in RowsOf(last.pre, last.identity.tokenIdentifier) :
            i > 1 /\ last.pre[i].name # last.identity.name

\* C7: every successful put of a tokenIdentifier returns the id that the
\* first successful put of that tokenIdentifier returned.
C7_SameIdReturned ==
    LastPutOk => last.value = firstId[last.identity.tokenIdentifier]

\* A later put of a tokenIdentifier, with a changed name.
C7_Witness ==
    /\ LastPutOk
    /\ last.identity.tokenIdentifier \in putTwice
    /\ last.patches = 1

\* C8: when the successful puts so far were made with pairwise distinct
\* tokenIdentifiers (none has put twice), list returns as many documents
\* as there were successful puts.
C8_ListCountsPuts ==
    (last.op = "list" /\ putTwice = {}) =>
        /\ last.outcome = "ok"
        /\ Len(last.value) = Cardinality(putTokens)

C8_Witness ==
    last.op = "list" /\ putTwice = {} /\ Cardinality(putTokens) >= 2

\* C9: a me without an identity ends in an error and leaves the table as
\* it was.
C9_MeUnauthenticated ==
    (last.op = "me" /\ last.identity = Null) =>
        /\ last.outcome = "error"
        /\ users = last.pre

C9_Witness == last.op = "me" /\ last.identity = Null /\ Len(users) >= 1

\* C10: a me with an identity returns that identity object and leaves the
\* table as it was.
C10_MeReturnsIdentity ==
    (last.op = "me" /\ last.identity # Null) =>
        /\ last.outcome = "ok"
        /\ last.value = last.identity
        /\ users = last.pre

C10_Witness ==
    last.op = "me" /\ last.identity \in Identities /\ Len(users) >= 1

\* The documents of `rows`, as a set.
Docs(rows) == {rows[i] : i \in 1..Len(rows)}

\* C11: list returns the documents of the table at the time of the call,
\* all of them and nothing else, whoever calls.
C11_ListReturnsAll ==
    last.op = "list" =>
        /\ last.outcome = "ok"
        /\ Len(last.value) = Len(last.pre)
        /\ Docs(last.value) = Docs(last.pre)

\* A caller lists a table that holds another caller's document besides
\* its own.
C11_Witness ==
    /\ last.op = "list"
    /\ last.identity # Null
    /\ \E i, j \in 1..Len(last.pre) :
          /\ last.pre[i].tokenIdentifier = last.identity.tokenIdentifier
          /\ last.pre[j].tokenIdentifier # last.identity.tokenIdentifier

\* C12: a list without an identity raises no error and returns what list
\* returns to any authenticated caller on the same table: all documents.
C12_ListUnauthenticated ==
    (last.op = "list" /\ last.identity = Null) =>
        /\ last.outcome = "ok"
        /\ last.value = last.pre
        /\ \A ident \in Identities :
              LET res == ListResult(last.pre, nextId, ident) IN
              res.outcome = last.outcome /\ res.value = last.value

C12_Witness == last.op = "list" /\ last.identity = Null /\ Len(last.value) >= 2

\* The number of documents of `pre` that `post` holds with another content
\* or not at all, plus the number of documents `post` holds beyond `pre`.
Writes(pre, post) ==
    Cardinality({i \in 1..Len(pre) : i > Len(post) \/ post[i] # pre[i]})
        + (IF Len(post) > Len(pre) THEN Len(post) - Len(pre) ELSE 0)

\* C13: one put makes at most one write: a patch, an insert or nothing,
\* never a patch and an insert.
C13_PutWritesOnce ==
    last.op = "put" =>
        /\ last.patches + last.inserts <= 1
        /\ Writes(last.pre, users) <= 1
        /\ Writes(last.pre, users) = last.patches + last.inserts

\* A put has patched the second document of the table.
C13_Witness ==
    /\ last.op = "put"
    /\ last.patches = 1
    /\ Len(users) >= 2
    /\ users[2] # last.pre[2]

\* C14: the value a successful put returns is the id of a document that
\* is in the table after the call and has the caller's tokenIdentifier.
C14_PutReturnsRowId ==
    LastPutOk =>
        \E i \in 1..Len(users) :
            /\ users[i]._id = last.value
            /\ users[i].tokenIdentifier = last.identity.tokenIdentifier

\* The returned id is that of a document this put created, next to the
\* document of another caller.
C14_Witness ==
    /\ LastPutOk
    /\ last.inserts = 1
    /\ Len(users) >= 2
    /\ users[Len(users)]._id = last.value

\* C15: with every invocation a transaction, an invocation ends in an
\* error only if it is a me or a put without an identity; a put with an
\* identity and every list complete without error.
C15_ErrorsOnlyUnauthenticated ==
    /\ last.outcome = "error" => (last.op \in {"me", "put"} /\ last.identity = Null)
    /\ (last.op = "put" /\ last.identity # Null) => last.outcome = "ok"
    /\ last.op = "list" => last.outcome = "ok"

\* An error on a table that holds a document of every tokenIdentifier.
C15_Witness ==
    /\ last.outcome = "error"
    /\ \A t \in Tokens : RowsOf(users, t) # {}

\* C16: no step of me, list or put removes a document: the number of
\* documents never decreases and every id in the table stays in it.
C16_NeverDeleted ==
    [][/\ Len(users') >= Len(users)
       /\ \A i \in 1..Len(users) :
             \E j \in 1..Len(users') : users'[j]._id = users[i]._id]_vars

\* A put has patched a document and the table still holds every document.
C16_Witness ==
    /\ LastPutOk
    /\ last.patches = 1
    /\ Len(users) = Len(last.pre)
    /\ Len(users) = MaxTokens

\* C18: a put whose caller has a document with the name of its identity
\* writes nothing: the table is as it was.
C18_PutSameNameNoWrite ==
    (LastPutOk /\ \E i \in RowsOf(last.pre, last.identity.tokenIdentifier) :
                     last.pre[i].name = last.identity.name) =>
        /\ users = last.pre
        /\ last.patches = 0
        /\ last.inserts = 0

\* Such a put that follows an invocation other than a put of the same
\* identity.
C18_Witness ==
    /\ LastPutOk
    /\ ~last.repeat
    /\ \E i \in RowsOf(last.pre, last.identity.tokenIdentifier) :
          last.pre[i].name = last.identity.name

\* C19: a document keeps its id, its tokenIdentifier and its fields in
\* every step; name is the only field whose value a step changes.
C19_IdAndTokenFixed ==
    [][\A i \in 1..Len(users) : \A j \in 1..Len(users') :
          users'[j]._id = users[i]._id =>
              /\ users'[j].tokenIdentifier = users[i].tokenIdentifier
              /\ DOMAIN users'[j] = DOMAIN users[i]]_vars

\* A put has changed the name of a document.
C19_Witness ==
    /\ LastPutOk
    /\ \E i \in 1..Len(last.pre) :
          /\ users[i]._id = last.pre[i]._id
          /\ users[i].name # last.pre[i].name

\* C20: a put leaves the documents of every tokenIdentifier other than
\* its caller's as they were, and creates none for them.
C20_PutLeavesOthers ==
    (last.op = "put" /\ last.identity # Null) =>
        \A t \in Tokens \ {last.identity.tokenIdentifier} :
            /\ RowsOf(users, t) = RowsOf(last.pre, t)
            /\ \A i \in RowsOf(last.pre, t) : users[i] = last.pre[i]

\* A put has patched its caller's document, which is not the first of the
\* table, in a table that holds another caller's document.
C20_Witness ==
    /\ LastPutOk
    /\ last.patches = 1
    /\ Len(last.pre) >= 2
    /\ last.pre[1].tokenIdentifier # last.identity.tokenIdentifier

\* C21: the lookup of a put whose caller has two or more documents in the
\* table throws the error of unique() and ends the invocation without a
\* write; and no step lowers the number of documents of a tokenIdentifier,
\* so the duplicates stay.
C21_DuplicatesMakePutFail ==
    [][/\ \A p \in Procs :
            (/\ pc[p] = "lookup"
             /\ Cardinality(RowsOf(users, identity[p].tokenIdentifier)) >= 2
             /\ pc'[p] # "lookup") =>
                /\ pc'[p] = "done"
                /\ last'.op = "put"
                /\ last'.identity = identity[p]
                /\ last'.outcome = "error"
                /\ last'.value = ErrUnique
                /\ users' = users
       /\ \A t \in Tokens :
            Cardinality(RowsOf(users', t)) >= Cardinality(RowsOf(users, t))]_vars

\* A put has failed in unique() on a table with two documents of its
\* caller's tokenIdentifier.
C21_Witness ==
    /\ last.op = "put"
    /\ last.outcome = "error"
    /\ last.value = ErrUnique
    /\ Cardinality(RowsOf(users, last.identity.tokenIdentifier)) >= 2
    /\ users = last.pre

\* The put invocations in flight, and whether the puts started so far were
\* made with pairwise distinct tokenIdentifiers.
InFlight == {p \in Procs : pc[p] \in {"lookup", "write"}}

DistinctCallers ==
    /\ putTwice = {}
    /\ \A p \in InFlight : identity[p].tokenIdentifier \notin putTokens
    /\ \A p, q \in InFlight :
          p # q => identity[p].tokenIdentifier # identity[q].tokenIdentifier

\* C22: with lookup and write as separate steps, puts made with pairwise
\* distinct tokenIdentifiers create no duplicate: the table holds at most
\* one document per tokenIdentifier, exactly one for each that has put, and
\* once all are done exactly one per calling tokenIdentifier and no other.
C22_DistinctCallersNoDuplicate ==
    DistinctCallers =>
        /\ AtMostOnePerToken(users)
        /\ \A t \in putTokens : Cardinality(RowsOf(users, t)) = 1
        /\ pc = [p \in Procs |-> "done"] => Len(users) = Cardinality(putTokens)

\* All invocations are done, every tokenIdentifier has put once.
C22_Witness ==
    /\ DistinctCallers
    /\ pc = [p \in Procs |-> "done"]
    /\ putTokens = Tokens
    /\ Len(users) = MaxTokens

\* ------------------------------------------- queries interleaved with put
\* me and list run as single transactions between the steps of the put
\* invocations of QueryProcs.
NextQ ==
    \/ \E ident \in AuthContexts : me(ident)
    \/ \E ident \in AuthContexts : list(ident)
    \/ \E p \in QueryProcs, ident \in AuthContexts : PutAuth(p, ident)
    \/ \E p \in QueryProcs : PutLookup(p)
    \/ \E p \in QueryProcs : PutWrite(p)

SpecQ == Init /\ [][NextQ]_vars

\* C23: no me or list invocation, with or without an identity, changes the
\* users table, wherever it falls between the steps of put invocations: a
\* step that is not a step of a put leaves the table and the id counter as
\* they were, and every change of the table is the write step of a put.
C23_OnlyPutWrites ==
    [][/\ pc' = pc => users' = users /\ nextId' = nextId
       /\ users' # users =>
            /\ last'.op = "put"
            /\ \E p \in Procs : pc[p] = "write" /\ pc'[p] = "done"]_vars

\* An unauthenticated me or list has run between the lookup and the write
\* of a put.
C23_Witness ==
    /\ last.op \in {"me", "list"}
    /\ last.identity = Null
    /\ \E p \in QueryProcs : pc[p] = "write"

\* ------------------------------------------------ completion of invocations
\* The awaited platform calls of put (the lookup, the write) eventually
\* respond: weak fairness of the step that follows each of them.
NextLive ==
    \/ \E p \in LiveProcs, ident \in AuthContexts : PutAuth(p, ident)
    \/ \E p \in LiveProcs : PutLookup(p)
    \/ \E p \in LiveProcs : PutWrite(p)

SpecLive ==
    /\ Init
    /\ [][NextLive]_vars
    /\ \A p \in LiveProcs : WF_vars(PutLookup(p)) /\ WF_vars(PutWrite(p))

Rank(at) ==
    CASE at = "idle" -> 0
      [] at = "lookup" -> 1
      [] at = "write" -> 2
      [] at = "done" -> 3

\* C24: an invocation of put that has started eventually completes,
\* whatever the other invocations do, and every step moves exactly one
\* invocation forward (identity check, then the lookup, then the write, then
\* done), so no invocation repeats a step or goes back to an earlier one.
C24_InvocationsComplete ==
    /\ \A p \in LiveProcs : (pc[p] \in {"lookup", "write"}) ~> (pc[p] = "done")
    /\ [][\E p \in LiveProcs :
            /\ Rank(pc'[p]) > Rank(pc[p])
            /\ \A q \in Procs \ {p} : pc'[q] = pc[q]]_vars

\* Two invocations that ran interleaved (both inserted a document for the
\* same tokenIdentifier) are both done.
C24_Witness ==
    /\ \A p \in LiveProcs : pc[p] = "done"
    /\ ~AtMostOnePerToken(users)

\* ------------------------------------------------------- speech processor
\* One call of process by the audio engine.  lastProcess keeps the
\* arguments, the port as the call found it and what the call did.
process(inputs, outputs) ==
    /\ nProcess < MaxProcessCalls
    /\ LET res == ProcessResult(inputs, outputs) IN
        /\ port' = port \o res.posted
        /\ lastProcess' = [made |-> TRUE, inputs |-> inputs, outputs |-> outputs,
                           port |-> port, threw |-> res.threw,
                           posted |-> res.posted, ret |-> res.ret,
                           left |-> res.outputs]
    /\ nProcess' = nProcess + 1
    /\ UNCHANGED <<users, nextId, pc, identity, user, last, firstId, putTokens, putTwice>>

NextSP == \E inputs \in InputArrays, outputs \in OutputArrays : process(inputs, outputs)

SpecSP == Init /\ [][NextSP]_vars

\* The first channel of the first input, as JavaScript reads it.
FirstChannel(inputs) ==
    IF Len(inputs[1]) = 0 THEN Undefined ELSE inputs[1][1]

\* C25: a call of process whose first input is defined posts exactly one
\* message, the first channel of that input (the buffer itself) and
\* the message goes to the end of the port, so messages are in call order.
C25_PostsFirstChannel ==
    (lastProcess.made /\ Len(lastProcess.inputs) >= 1) =>
        /\ Len(lastProcess.posted) = 1
        /\ port = Append(lastProcess.port, FirstChannel(lastProcess.inputs))

\* The third call follows two posts and posts the first of two different
\* channels.
C25_Witness ==
    /\ lastProcess.made
    /\ Len(lastProcess.port) = 2
    /\ Len(lastProcess.inputs) = 1
    /\ Len(lastProcess.inputs[1]) = 2
    /\ lastProcess.inputs[1][1] # lastProcess.inputs[1][2]
    /\ port[3] = lastProcess.inputs[1][1]

\* C26: every call of process that completes returns true, whatever its
\* inputs and outputs.
C26_ReturnsTrue ==
    (lastProcess.made /\ ~lastProcess.threw) => lastProcess.ret = <<TRUE>>

\* A call with an input of no channels has returned true.
C26_Witness ==
    /\ lastProcess.made
    /\ ~lastProcess.threw
    /\ lastProcess.inputs = <<<<>>>>
    /\ lastProcess.ret = <<TRUE>>

\* C27: a call whose first input has no channels still posts exactly one
\* message, undefined, and returns true.
C27_NoChannelsPostsUndefined ==
    (lastProcess.made /\ lastProcess.inputs = <<<<>>>>) =>
        /\ lastProcess.posted = <<Undefined>>
        /\ port = Append(lastProcess.port, Undefined)
        /\ lastProcess.ret = <<TRUE>>

\* A call with no channels has posted undefined after a call that posted a
\* buffer.
C27_Witness ==
    /\ lastProcess.made
    /\ lastProcess.inputs = <<<<>>>>
    /\ Len(port) = 2
    /\ port[1] \in Buffers
    /\ port[2] = Undefined

\* C28: process leaves the outputs argument as it found it.
C28_OutputsUntouched ==
    lastProcess.made => lastProcess.left = lastProcess.outputs

\* A call with a channel in its input and a channel in its output has
\* completed and the output is still silent.
C28_Witness ==
    /\ lastProcess.made
    /\ ~lastProcess.threw
    /\ Len(lastProcess.inputs[1]) >= 1
    /\ Len(lastProcess.outputs[1]) >= 1
    /\ lastProcess.left = <<<<Silence>>>>

====
